---- MODULE Spec2Model ----
(***************************************************************************)
(* The MMR inclusion-proof verifier of c/ckb_mmr.h (mmr_verify), with its  *)
(* default buffer readers and its positional arithmetic.                   *)
(*                                                                         *)
(* Memory is modelled at byte granularity.  A uint64_t is the sequence of  *)
(* its 8 bytes, least significant first (the readers target little-endian  *)
(* machines), and all 64-bit arithmetic is done on these bytes modulo      *)
(* 2^64.  uint32_t and uint16_t quantities stay far below their width in   *)
(* every run and are naturals.                                             *)
(***************************************************************************)
EXTENDS Integers, Sequences, FiniteSets, TLC

(***************************************************************************)
(* Program constants.                                                      *)
(***************************************************************************)
MMR_STACK_SIZE == 257
\* digest length of mmr_blake2b_merge
BLAKE2B_DIGEST_BYTES == 32

ERROR_INVALID_STACK == 80
ERROR_INVALID_COMMAND == 81
ERROR_INVALID_PROOF == 82
ERROR_PROOF_EOF == 83
ERROR_LEAF_EOF == 84
ERROR_NO_MORE_LEAFS == 85
ERROR_NO_MORE_COMMANDS == 86
ERROR_NODE_EOF == 87

MMR_NODE_TYPE_BUFFER == 1
MMR_NODE_TYPE_POINTER == 2

_MMR_STACK_NODE == 1
_MMR_STACK_PROOF == 2
_MMR_STACK_PEAK == 3

(***************************************************************************)
(* 64-bit unsigned integers as 8 little-endian bytes.                      *)
(***************************************************************************)
RECURSIVE NatBytes(_, _)
NatBytes(n, k) == IF k = 0 THEN <<>> ELSE <<n % 256>> \o NatBytes(n \div 256, k - 1)

\* the uint64_t with value n (n a natural below 2^31)
U64(n) == NatBytes(n, 8)

\* the value of a uint64_t; evaluable only while it is below 2^31
RECURSIVE BytesNat(_)
BytesNat(bs) == IF bs = <<>> THEN 0 ELSE bs[1] + 256 * BytesNat(Tail(bs))

U64Lt(a, b) == \E i \in 1..8 : a[i] < b[i] /\ \A j \in (i + 1)..8 : a[j] = b[j]
U64Le(a, b) == ~U64Lt(b, a)

RECURSIVE AddCarry(_, _, _)
AddCarry(a, b, c) ==
    IF a = <<>> THEN <<>>
    ELSE LET s == a[1] + b[1] + c
         IN  <<s % 256>> \o AddCarry(Tail(a), Tail(b), s \div 256)

\* a + b and a - b modulo 2^64
U64Add(a, b) == AddCarry(a, b, 0)
U64Sub(a, b) == AddCarry(a, [i \in 1..8 |-> 255 - b[i]], 1)

RECURSIVE BitLen8(_)
BitLen8(b) == IF b = 0 THEN 0 ELSE 1 + BitLen8(b \div 2)

RECURSIVE PopCount8(_)
PopCount8(b) == IF b = 0 THEN 0 ELSE (b % 2) + PopCount8(b \div 2)

RECURSIVE Pow2(_)
Pow2(n) == IF n = 0 THEN 1 ELSE 2 * Pow2(n - 1)

\* number of significant bits of a uint64_t (0 for zero)
BitLength(v) ==
    IF \A i \in 1..8 : v[i] = 0 THEN 0
    ELSE LET top == CHOOSE i \in 1..8 : v[i] # 0 /\ \A j \in (i + 1)..8 : v[j] = 0
         IN  8 * (top - 1) + BitLen8(v[top])

\* ((uint64_t)1) << n.  A shift count of 64 or more (undefined in C) is
\* taken modulo 64, as the shift instructions of the targets do.
U64Shl1(n) == [i \in 1..8 |-> IF i = ((n % 64) \div 8) + 1 THEN Pow2(n % 8) ELSE 0]

\* __builtin_ctzl / clz / cpop wrappers.  clz of zero (undefined for the
\* builtin) is 64, the value of the RISC-V instruction.
_mmr_leading_zeros_u64(value) == 64 - BitLength(value)

_mmr_count_zeros_u64(value) ==
    64 - (PopCount8(value[1]) + PopCount8(value[2]) + PopCount8(value[3])
          + PopCount8(value[4]) + PopCount8(value[5]) + PopCount8(value[6])
          + PopCount8(value[7]) + PopCount8(value[8]))

(***************************************************************************)
(* Positional arithmetic.                                                  *)
(***************************************************************************)
\* `2 << height` and `(2 << height) - 1` are int expressions converted to
\* uint64_t on return.  For height <= 29 they are exact.  From height 30 on
\* the shift overflows int, which is undefined: what the call yields depends
\* on the build.  The builds:
\*   "int32"       a 32-bit shift (count modulo 32, result truncated to 32
\*                 bits), a 32-bit subtraction, then sign extension;
\*   "int32_sub64" the same shift, sign extension, then a 64-bit subtraction;
\*   "int64"       the expression evaluated in a 64-bit register (count
\*                 modulo 64), which no defined execution can tell apart.
Builds == {"int32", "int32_sub64", "int64"}

\* the low 32 bits of 2 << (height % 32)
Shl32(height) ==
    LET m == height % 32
    IN  IF m = 30 THEN <<0, 0, 0, 128>>
        ELSE IF m = 31 THEN <<0, 0, 0, 0>>
        ELSE NatBytes(Pow2(m + 1), 4)

\* 2 << (height % 64) in 64 bits
Shl64(height) ==
    LET m == height % 64 IN IF m = 63 THEN U64(0) ELSE U64Shl1(m + 1)

\* int to uint64_t
SignExtend(int) ==
    LET ext == IF int[4] >= 128 THEN 255 ELSE 0 IN int \o <<ext, ext, ext, ext>>

\* int - 1, wrapping
IntPred(int) == SubSeq(U64Sub(int \o <<0, 0, 0, 0>>, U64(1)), 1, 4)

_mmr_parent_offset(build, height) ==
    IF build = "int64" THEN Shl64(height) ELSE SignExtend(Shl32(height))

_mmr_sibling_offset(build, height) ==
    CASE build = "int64" -> U64Sub(Shl64(height), U64(1))
      [] build = "int32_sub64" -> U64Sub(SignExtend(Shl32(height)), U64(1))
      [] OTHER -> SignExtend(IntPred(Shl32(height)))

_mmr_all_ones(num) ==
    /\ num # U64(0)
    /\ _mmr_count_zeros_u64(num) = _mmr_leading_zeros_u64(num)

_mmr_jump_left(pos) ==
    LET bit_length == 64 - _mmr_leading_zeros_u64(pos)
        most_significant_bits == U64Shl1((bit_length + 63) % 64)
    IN  U64Sub(pos, U64Sub(most_significant_bits, U64(1)))

RECURSIVE JumpToAllOnes(_)
JumpToAllOnes(pos) == IF _mmr_all_ones(pos) THEN pos ELSE JumpToAllOnes(_mmr_jump_left(pos))

\* _mmr_pos_height_in_tree returning the bit length itself
_mmr_pos_height_in_tree_BitLength(pos) ==
    64 - _mmr_leading_zeros_u64(JumpToAllOnes(U64Add(pos, U64(1))))

_mmr_pos_height_in_tree(pos) ==
    64 - _mmr_leading_zeros_u64(JumpToAllOnes(U64Add(pos, U64(1)))) - 1

\* _mmr_peak_t
Peak(pos, height, present) == [pos |-> pos, height |-> height, present |-> present]

_mmr_get_peak_pos_by_height(height) == U64Sub(U64Shl1(height + 1), U64(2))

RECURSIVE LeftPeakLoop(_, _, _, _)
LeftPeakLoop(height, prev_pos, pos, mmr_size) ==
    IF U64Lt(pos, mmr_size)
    THEN LeftPeakLoop(height + 1, pos, _mmr_get_peak_pos_by_height(height + 1), mmr_size)
    ELSE Peak(prev_pos, height - 1, 1)

_mmr_left_peak_height_pos(mmr_size) ==
    LeftPeakLoop(1, U64(0), _mmr_get_peak_pos_by_height(1), mmr_size)

RECURSIVE RightPeakLoop(_, _, _, _, _)
RightPeakLoop(build, peak, height, pos, mmr_size) ==
    IF U64Lt(U64Sub(mmr_size, U64(1)), pos)
    THEN IF height = 0
         THEN [peak EXCEPT !.present = 0]
         ELSE RightPeakLoop(build, peak, height - 1,
                            U64Sub(pos, _mmr_parent_offset(build, height - 1)), mmr_size)
    ELSE Peak(pos, height, 1)

\* the peak after _mmr_get_right_peak(&peak, mmr_size)
_mmr_get_right_peak(build, peak, mmr_size) ==
    RightPeakLoop(build, peak, peak.height,
                  U64Add(peak.pos, _mmr_sibling_offset(build, peak.height)), mmr_size)

(***************************************************************************)
(* Bytes, nodes and the merge hook.                                        *)
(*                                                                         *)
(* A byte of memory is a record: b is its numeric value.  blake2b is a     *)
(* black box and is modelled as an injective function of its message: the  *)
(* first byte of a digest carries the hashed message in h, and h is empty  *)
(* in every byte that is not the first byte of a digest.                   *)
(***************************************************************************)
Byte(k) == [b |-> k, h |-> <<>>]

Bytes(ks) == [i \in 1..Len(ks) |-> Byte(ks[i])]

\* blake2b with output length BLAKE2B_DIGEST_BYTES over message msg
Blake2b(msg) ==
    <<[b |-> 0, h |-> <<msg>>]>> \o [i \in 1..(BLAKE2B_DIGEST_BYTES - 1) |-> Byte(0)]

\* mmr_node_t: value holds the bytes of value.buffer, or the `length` bytes
\* value.pointer points at
Node(t, value, length) == [t |-> t, value |-> value, length |-> length]

mmr_node_value(node) == node.value

\* mmr_blake2b_merge without the update with rhs
mmr_blake2b_merge_LhsOnly(lhs, rhs) ==
    Node(MMR_NODE_TYPE_BUFFER,
         Blake2b(SubSeq(mmr_node_value(lhs), 1, lhs.length)),
         BLAKE2B_DIGEST_BYTES)

\* the node written to dst by mmr_blake2b_merge(dst, lhs, rhs)
mmr_blake2b_merge(lhs, rhs) ==
    Node(MMR_NODE_TYPE_BUFFER,
         Blake2b(SubSeq(mmr_node_value(lhs), 1, lhs.length)
                 \o SubSeq(mmr_node_value(rhs), 1, rhs.length)),
         BLAKE2B_DIGEST_BYTES)

MMR_MERGE(lhs, rhs) == mmr_blake2b_merge(lhs, rhs)

MMR_MERGE_PEAKS(lhs, rhs) == mmr_blake2b_merge(lhs, rhs)

(***************************************************************************)
(* The default buffer readers.  A reader context is                        *)
(* mmr_default_buffer_reader_t; buffer[i] of the C code is buffer[i + 1].  *)
(***************************************************************************)
mmr_default_buffer_reader_init(buffer, buffer_length) ==
    [buffer |-> buffer, buffer_length |-> buffer_length, index |-> 0]

\* a - b in uint32_t arithmetic
U32Sub(a, b) == IF a >= b THEN a - b ELSE (a - b) + 65536 * 65536

\* _mmr_default_buffer_read_node stepping over the length field before it
\* fails on a record cut short
_mmr_default_buffer_read_node_PastLength(c) ==
    IF U32Sub(c.buffer_length, c.index) < 2
    THEN [ret |-> ERROR_NODE_EOF, c |-> c]
    ELSE LET len == c.buffer[c.index + 1].b + 256 * c.buffer[c.index + 2].b
         IN  IF U32Sub(U32Sub(c.buffer_length, c.index), 2) < len
             THEN [ret |-> ERROR_NODE_EOF, c |-> [c EXCEPT !.index = c.index + 2]]
             ELSE [ret |-> 0,
                   c |-> [c EXCEPT !.index = c.index + 2 + len],
                   out |-> Node(MMR_NODE_TYPE_POINTER,
                                SubSeq(c.buffer, c.index + 3, c.index + 2 + len),
                                len)]

\* [ret, c, out]: the return code, the context afterwards and, when ret = 0,
\* the node written to *out
_mmr_default_buffer_read_node(c) ==
    IF U32Sub(c.buffer_length, c.index) < 2
    THEN [ret |-> ERROR_NODE_EOF, c |-> c]
    ELSE LET len == c.buffer[c.index + 1].b + 256 * c.buffer[c.index + 2].b
         IN  IF U32Sub(U32Sub(c.buffer_length, c.index), 2) < len
             THEN [ret |-> ERROR_NODE_EOF, c |-> c]
             ELSE [ret |-> 0,
                   c |-> [c EXCEPT !.index = c.index + 2 + len],
                   out |-> Node(MMR_NODE_TYPE_POINTER,
                                SubSeq(c.buffer, c.index + 3, c.index + 2 + len),
                                len)]

\* [ret, c, out_command]
_mmr_default_command_read(c) ==
    IF c.index >= c.buffer_length
    THEN [ret |-> ERROR_NO_MORE_COMMANDS, c |-> c]
    ELSE [ret |-> 0,
          c |-> [c EXCEPT !.index = c.index + 1],
          out_command |-> c.buffer[c.index + 1].b]

\* [ret, c, out_node, out_position]
_mmr_default_leaf_iter_read(c) ==
    IF c.index >= c.buffer_length
    THEN [ret |-> ERROR_NO_MORE_LEAFS, c |-> c]
    ELSE IF U32Sub(c.buffer_length, c.index) < 8
    THEN [ret |-> ERROR_LEAF_EOF, c |-> c]
    ELSE LET position == [i \in 1..8 |-> c.buffer[c.index + i].b]
             r == _mmr_default_buffer_read_node([c EXCEPT !.index = c.index + 8])
         IN  IF r.ret # 0
             THEN [ret |-> r.ret, c |-> r.c]
             ELSE [ret |-> 0, c |-> r.c, out_node |-> r.out, out_position |-> position]

MMR_LEAF_READER(c) == _mmr_default_leaf_iter_read(c)
MMR_COMMAND_READER(c) == _mmr_default_command_read(c)
MMR_PROOF_READER(c) == _mmr_default_buffer_read_node(c)

(***************************************************************************)
(* mmr_verify.  The state of one call is a record s: the arguments (root,  *)
(* root_length, mmr_size and the two reader contexts), the locals, pc      *)
(* ("entry" before the mmr_size test, "loop" at the head of the while      *)
(* loop, "done" after return) and ret, the value returned.  stack[i] of    *)
(* the C code is stack[i + 1]; stack holds the slots written so far, the   *)
(* live ones being the first stack_top.                                    *)
(***************************************************************************)
NOT_RETURNED == 0 - 1

\* _mmr_stack_value_t
StackValue(t, node, position, height) ==
    [t |-> t, node |-> node, position |-> position, height |-> height]

\* a slot of the array no statement has written yet
Unwritten == StackValue(0, Node(0, <<>>, 0), U64(0), 0)

Slot(stack, i) == IF i < Len(stack) THEN stack[i + 1] ELSE Unwritten

SetSlot(stack, i, e) ==
    IF i < Len(stack) THEN [stack EXCEPT ![i + 1] = e] ELSE Append(stack, e)

Return(s, code) == [s EXCEPT !.pc = "done", !.ret = code]

\* lines 312-318: the state on entry
Entry(root, root_length, mmr_size, proof_reader_context, leaf_reader_context) ==
    [root |-> root, root_length |-> root_length, mmr_size |-> mmr_size,
     proof_reader_context |-> proof_reader_context,
     leaf_reader_context |-> leaf_reader_context,
     stack |-> <<>>, stack_top |-> 0,
     next_peak_info |-> _mmr_left_peak_height_pos(mmr_size),
     last_leaf_pos |-> U64(0), has_last_leaf |-> 0, command |-> 255,
     pc |-> "entry", ret |-> NOT_RETURNED, build |-> "int32"]

\* SizeCheck made after the first command has been read
SizeCheck_AfterRead(s) ==
    IF s.mmr_size = U64(0)
    THEN Return([s EXCEPT !.proof_reader_context = MMR_COMMAND_READER(@).c],
                ERROR_INVALID_PROOF)
    ELSE [s EXCEPT !.pc = "loop"]

\* lines 320-323
SizeCheck(s) ==
    IF s.mmr_size = U64(0) THEN Return(s, ERROR_INVALID_PROOF) ELSE [s EXCEPT !.pc = "loop"]

\* StackFull off by one: the test written with > for >=
StackFull_OffByOne(s) == s.stack_top > MMR_STACK_SIZE

\* lines 335 and 362: no slot is left for a push
StackFull(s) == s.stack_top >= MMR_STACK_SIZE

\* LeafRejected without the comparison with the last leaf
LeafRejected_Unordered(s, position) ==
    \/ U64Le(s.mmr_size, position)
    \/ _mmr_pos_height_in_tree(position) > 0

\* lines 344-354: the leaf just read is out of order, outside the MMR, or
\* not at height 0
LeafRejected(s, position) ==
    \/ s.has_last_leaf # 0 /\ U64Le(position, s.last_leaf_pos)
    \/ U64Le(s.mmr_size, position)
    \/ _mmr_pos_height_in_tree(position) > 0

\* case 1: push a leaf
PushLeaf(s) ==
    IF StackFull(s) THEN Return(s, ERROR_INVALID_STACK)
    ELSE LET r == MMR_LEAF_READER(s.leaf_reader_context)
         IN  IF r.ret # 0
             THEN Return([s EXCEPT !.leaf_reader_context = r.c], r.ret)
             ELSE LET position == r.out_position
                      read == [Slot(s.stack, s.stack_top) EXCEPT
                                 !.node = r.out_node, !.position = position]
                      s1 == [s EXCEPT !.leaf_reader_context = r.c,
                                      !.stack = SetSlot(s.stack, s.stack_top, read)]
                  IN  IF LeafRejected(s, position)
                      THEN Return(s1, ERROR_INVALID_PROOF)
                      ELSE [s1 EXCEPT
                              !.stack = SetSlot(s.stack, s.stack_top,
                                  StackValue(_MMR_STACK_NODE, r.out_node, position, 0)),
                              !.last_leaf_pos = position,
                              !.has_last_leaf = 1,
                              !.stack_top = s.stack_top + 1]

\* PushProof reporting a failed read as ProofEOF
PushProof_ProofEOF(s) ==
    IF StackFull(s) THEN Return(s, ERROR_INVALID_STACK)
    ELSE LET r == MMR_PROOF_READER(s.proof_reader_context)
         IN  IF r.ret # 0
             THEN Return([s EXCEPT !.proof_reader_context = r.c], ERROR_PROOF_EOF)
             ELSE [s EXCEPT
                     !.proof_reader_context = r.c,
                     !.stack = SetSlot(s.stack, s.stack_top,
                         StackValue(_MMR_STACK_PROOF, r.out, U64(0), 0)),
                     !.stack_top = s.stack_top + 1]

\* case 2: push a proof node
PushProof(s) ==
    IF StackFull(s) THEN Return(s, ERROR_INVALID_STACK)
    ELSE LET r == MMR_PROOF_READER(s.proof_reader_context)
         IN  IF r.ret # 0
             THEN Return([s EXCEPT !.proof_reader_context = r.c], r.ret)
             ELSE [s EXCEPT
                     !.proof_reader_context = r.c,
                     !.stack = SetSlot(s.stack, s.stack_top,
                         StackValue(_MMR_STACK_PROOF, r.out, U64(0), 0)),
                     !.stack_top = s.stack_top + 1]

\* MergeChildren with item always on the left
MergeChildren_ItemFirst(next_height, height, item, sibling_item) ==
    MMR_MERGE(item, sibling_item)

\* lines 413-417: the parent digest of item and its sibling
MergeChildren(next_height, height, item, sibling_item) ==
    IF next_height > height
    THEN MMR_MERGE(sibling_item, item)
    ELSE MMR_MERGE(item, sibling_item)

\* Merge without the test of the sibling position
Merge_Unchecked(s) ==
    IF s.stack_top < 2 THEN Return(s, ERROR_INVALID_STACK)
    ELSE LET lhs == s.stack[s.stack_top - 1]
             rhs == s.stack[s.stack_top]
             anchor == IF lhs.t = _MMR_STACK_PROOF THEN rhs ELSE lhs
             next == IF lhs.t = _MMR_STACK_PROOF THEN lhs ELSE rhs
             pos == anchor.position
             height == anchor.height
             next_height == _mmr_pos_height_in_tree(U64Add(pos, U64(1)))
             parent_pos == IF next_height > height
                           THEN U64Add(pos, U64(1))
                           ELSE U64Add(pos, _mmr_parent_offset(s.build, height))
             merged == MergeChildren(next_height, height, anchor.node, next.node)
         IN  [s EXCEPT
                !.stack = SetSlot(s.stack, s.stack_top - 2,
                    StackValue(_MMR_STACK_NODE, merged, parent_pos, height + 1)),
                !.stack_top = s.stack_top - 1]

\* case 3: merge the two top entries into their parent
Merge(s) ==
    IF s.stack_top < 2 THEN Return(s, ERROR_INVALID_STACK)
    ELSE LET lhs_index == s.stack_top - 2
             rhs_index == s.stack_top - 1
             lhs == s.stack[lhs_index + 1]
             rhs == s.stack[rhs_index + 1]
             anchor == IF lhs.t = _MMR_STACK_PROOF THEN rhs ELSE lhs
             next == IF lhs.t = _MMR_STACK_PROOF THEN lhs ELSE rhs
             pos == anchor.position
             height == anchor.height
             next_pos == next.position
             next_t == next.t
             item == anchor.node
             sibling_item == next.node
             next_height == _mmr_pos_height_in_tree(U64Add(pos, U64(1)))
             sibling_offset == _mmr_sibling_offset(s.build, height)
             sib_pos == IF next_height > height
                        THEN U64Sub(pos, sibling_offset)
                        ELSE U64Add(pos, sibling_offset)
             parent_pos == IF next_height > height
                           THEN U64Add(pos, U64(1))
                           ELSE U64Add(pos, _mmr_parent_offset(s.build, height))
             merged == MergeChildren(next_height, height, item, sibling_item)
         IN  IF sib_pos # next_pos /\ next_t # _MMR_STACK_PROOF
             THEN Return(s, ERROR_INVALID_PROOF)
             ELSE [s EXCEPT
                     !.stack = SetSlot(s.stack, s.stack_top - 2,
                         StackValue(_MMR_STACK_NODE, merged, parent_pos, height + 1)),
                     !.stack_top = s.stack_top - 1]

\* MergePeaks leaving stack_top as it is
MergePeaks_NoPop(s) ==
    IF s.stack_top < 2 THEN Return(s, ERROR_INVALID_STACK)
    ELSE LET top == s.stack[s.stack_top]
             bottom == s.stack[s.stack_top - 1]
         IN  IF top.t # _MMR_STACK_PEAK \/ bottom.t # _MMR_STACK_PEAK
             THEN Return(s, ERROR_INVALID_PROOF)
             ELSE [s EXCEPT
                     !.stack = SetSlot(s.stack, s.stack_top - 2,
                         [bottom EXCEPT !.node = MMR_MERGE_PEAKS(top.node, bottom.node),
                                        !.height = 0])]

\* MergePeaks testing the kind of the top entry only
MergePeaks_TopOnly(s) ==
    IF s.stack_top < 2 THEN Return(s, ERROR_INVALID_STACK)
    ELSE LET top == s.stack[s.stack_top]
             bottom == s.stack[s.stack_top - 1]
         IN  IF top.t # _MMR_STACK_PEAK
             THEN Return(s, ERROR_INVALID_PROOF)
             ELSE [s EXCEPT
                     !.stack = SetSlot(s.stack, s.stack_top - 2,
                         [bottom EXCEPT !.node = MMR_MERGE_PEAKS(top.node, bottom.node),
                                        !.height = 0]),
                     !.stack_top = s.stack_top - 1]

\* MergePeaks with the entry beneath as the left operand
MergePeaks_UnderFirst(s) ==
    IF s.stack_top < 2 THEN Return(s, ERROR_INVALID_STACK)
    ELSE LET top == s.stack[s.stack_top]
             bottom == s.stack[s.stack_top - 1]
         IN  IF top.t # _MMR_STACK_PEAK \/ bottom.t # _MMR_STACK_PEAK
             THEN Return(s, ERROR_INVALID_PROOF)
             ELSE [s EXCEPT
                     !.stack = SetSlot(s.stack, s.stack_top - 2,
                         [bottom EXCEPT !.node = MMR_MERGE_PEAKS(bottom.node, top.node),
                                        !.height = 0]),
                     !.stack_top = s.stack_top - 1]

\* case 4: bag the two top peaks
MergePeaks(s) ==
    IF s.stack_top < 2 THEN Return(s, ERROR_INVALID_STACK)
    ELSE LET top_index == s.stack_top - 1
             bottom_index == s.stack_top - 2
             top == s.stack[top_index + 1]
             bottom == s.stack[bottom_index + 1]
         IN  IF top.t # _MMR_STACK_PEAK \/ bottom.t # _MMR_STACK_PEAK
             THEN Return(s, ERROR_INVALID_PROOF)
             ELSE [s EXCEPT
                     !.stack = SetSlot(s.stack, s.stack_top - 2,
                         [bottom EXCEPT !.node = MMR_MERGE_PEAKS(top.node, bottom.node),
                                        !.height = 0]),
                     !.stack_top = s.stack_top - 1]

\* lines 444-446: walk the peak cursor right until it is at pos or exhausted
RECURSIVE SeekPeak(_, _, _, _)
SeekPeak(build, peak, pos, mmr_size) ==
    IF peak.present # 0 /\ pos # peak.pos
    THEN SeekPeak(build, _mmr_get_right_peak(build, peak, mmr_size), pos, mmr_size)
    ELSE peak

\* MarkPeak reporting an empty stack as an invalid proof
MarkPeak_EmptyInvalidProof(s) ==
    IF s.stack_top < 1 THEN Return(s, ERROR_INVALID_PROOF)
    ELSE LET top == s.stack[s.stack_top]
             pos == top.position
             marked == SetSlot(s.stack, s.stack_top - 1, [top EXCEPT !.t = _MMR_STACK_PEAK])
         IN  IF top.t # _MMR_STACK_PROOF
             THEN LET found == SeekPeak(s.build, s.next_peak_info, pos, s.mmr_size)
                  IN  IF found.present = 0
                      THEN Return([s EXCEPT !.next_peak_info = found], ERROR_INVALID_PROOF)
                      ELSE [s EXCEPT
                              !.next_peak_info = _mmr_get_right_peak(s.build, found, s.mmr_size),
                              !.stack = marked]
             ELSE [s EXCEPT !.stack = marked]

\* MarkPeak walking the peak cursor for a Proof entry too
MarkPeak_AlwaysSeek(s) ==
    IF s.stack_top < 1 THEN Return(s, ERROR_INVALID_STACK)
    ELSE LET top == s.stack[s.stack_top]
             pos == top.position
             marked == SetSlot(s.stack, s.stack_top - 1, [top EXCEPT !.t = _MMR_STACK_PEAK])
         IN  IF TRUE
             THEN LET found == SeekPeak(s.build, s.next_peak_info, pos, s.mmr_size)
                  IN  IF found.present = 0
                      THEN Return([s EXCEPT !.next_peak_info = found], ERROR_INVALID_PROOF)
                      ELSE [s EXCEPT
                              !.next_peak_info = _mmr_get_right_peak(s.build, found, s.mmr_size),
                              !.stack = marked]
             ELSE [s EXCEPT !.stack = marked]

\* case 5: mark the top entry as a peak
MarkPeak(s) ==
    IF s.stack_top < 1 THEN Return(s, ERROR_INVALID_STACK)
    ELSE LET top == s.stack[s.stack_top]
             pos == top.position
             marked == SetSlot(s.stack, s.stack_top - 1, [top EXCEPT !.t = _MMR_STACK_PEAK])
         IN  IF top.t # _MMR_STACK_PROOF
             THEN LET found == SeekPeak(s.build, s.next_peak_info, pos, s.mmr_size)
                  IN  IF found.present = 0
                      THEN Return([s EXCEPT !.next_peak_info = found], ERROR_INVALID_PROOF)
                      ELSE [s EXCEPT
                              !.next_peak_info = _mmr_get_right_peak(s.build, found, s.mmr_size),
                              !.stack = marked]
             ELSE [s EXCEPT !.stack = marked]

\* BadCommand reporting the byte as an invalid proof
BadCommand_InvalidProof(s) == Return(s, ERROR_INVALID_PROOF)

\* default: any other command byte
BadCommand(s) == Return(s, ERROR_INVALID_COMMAND)

\* RootDiffers comparing the lengths only
RootDiffers_LengthOnly(root, root_length, node) == root_length # node.length

\* lines 467-468: the root given differs from the node in length or bytes
RootDiffers(root, root_length, node) ==
    \/ root_length # node.length
    \/ SubSeq(root, 1, root_length) # SubSeq(mmr_node_value(node), 1, root_length)

\* Terminal without the probe of the leaf reader
Terminal_NoLeafProbe(s) ==
    IF s.stack_top # 1 THEN Return(s, ERROR_INVALID_PROOF)
    ELSE IF RootDiffers(s.root, s.root_length, s.stack[1].node)
    THEN Return(s, ERROR_INVALID_PROOF)
    ELSE Return(s, 0)

\* lines 459-471: the checks after the loop
Terminal(s) ==
    IF s.stack_top # 1 THEN Return(s, ERROR_INVALID_PROOF)
    ELSE LET r == MMR_LEAF_READER(s.leaf_reader_context)
             s1 == [s EXCEPT !.leaf_reader_context = r.c]
             top == s.stack[1].node
         IN  IF r.ret = 0 THEN Return(s1, ERROR_INVALID_PROOF)
             ELSE IF RootDiffers(s.root, s.root_length, top)
             THEN Return(s1, ERROR_INVALID_PROOF)
             ELSE Return(s1, 0)

\* the switch on the command just read
Dispatch(s) ==
    CASE s.command = 1 -> PushLeaf(s)
      [] s.command = 2 -> PushProof(s)
      [] s.command = 3 -> Merge(s)
      [] s.command = 4 -> MergePeaks(s)
      [] s.command = 5 -> MarkPeak(s)
      [] OTHER -> BadCommand(s)

\* lines 326-333 and the switch: one iteration of the while loop, or the
\* checks after it once the commands are exhausted
Iterate(s) ==
    LET r == MMR_COMMAND_READER(s.proof_reader_context)
    IN  IF r.ret = ERROR_NO_MORE_COMMANDS THEN Terminal(s)
        ELSE IF r.ret # 0 THEN Return(s, r.ret)
        ELSE Dispatch([s EXCEPT !.proof_reader_context = r.c, !.command = r.out_command])

\* the state when the loop is left: by a return (pc = "done") or, with pc =
\* "loop", by the break at the end of the commands
RECURSIVE RunCommands(_)
RunCommands(s) ==
    IF s.pc = "done" THEN s
    ELSE IF s.pc = "entry" THEN RunCommands(SizeCheck(s))
    ELSE IF MMR_COMMAND_READER(s.proof_reader_context).ret = ERROR_NO_MORE_COMMANDS THEN s
    ELSE RunCommands(Iterate(s))

\* the state mmr_verify returns in, started from s
Run(s) ==
    LET t == RunCommands(s) IN IF t.pc = "done" THEN t ELSE Iterate(t)

\* run_mmr_verify: the value returned
run_mmr_verify(root, root_length, mmr_size, proof, proof_length, leaves, leaves_length) ==
    Run(Entry(root, root_length, mmr_size,
              mmr_default_buffer_reader_init(proof, proof_length),
              mmr_default_buffer_reader_init(leaves, leaves_length))).ret

(***************************************************************************)
(* The byte layouts the readers parse, written by a caller.                *)
(***************************************************************************)
\* a node record: u16 length, then the bytes
EncodeNode(bytes) == Bytes(NatBytes(Len(bytes), 2)) \o bytes

\* a leaf record: u64 position, then a node record
EncodeLeaf(position, bytes) == Bytes(position) \o EncodeNode(bytes)

RECURSIVE Concat(_)
Concat(seqs) == IF seqs = <<>> THEN <<>> ELSE Head(seqs) \o Concat(Tail(seqs))

(***************************************************************************)
(* An honest MMR and its proof generator.  Positions are naturals here.    *)
(* The MMR over n leaves is the forest of perfect trees given by the bits  *)
(* of n; the leaf at position p holds LeafData(p).                         *)
(***************************************************************************)
LeafData(p) == Bytes(<<100 + p>>)

\* the digest (as a node) of the MMR node of height h at position p
RECURSIVE NodeAt(_, _)
NodeAt(p, h) ==
    IF h = 0 THEN Node(MMR_NODE_TYPE_POINTER, LeafData(p), 1)
    ELSE MMR_MERGE(NodeAt(p - Pow2(h), h - 1), NodeAt(p - 1, h - 1))

\* the peaks <<position, height>> of the MMR over n leaves, left to right:
\* k is the height tried next, first the position of the first node not
\* yet under a peak
RECURSIVE PeaksFrom(_, _, _)
PeaksFrom(n, k, first) ==
    IF k < 0 THEN <<>>
    ELSE IF n >= Pow2(k)
         THEN <<(<<first + Pow2(k + 1) - 2, k>>)>>
                \o PeaksFrom(n - Pow2(k), k - 1, first + Pow2(k + 1) - 1)
         ELSE PeaksFrom(n, k - 1, first)

HonestPeaks(n) == PeaksFrom(n, 8, 0)

HonestSize(n) ==
    LET last == HonestPeaks(n)[Len(HonestPeaks(n))] IN last[1] + 1

\* the leaf positions of the MMR over n leaves
HonestLeafPositions(n) ==
    {p \in 0..(HonestSize(n) - 1) : _mmr_pos_height_in_tree(U64(p)) = 0}

\* bagging: the rightmost peak first, each peak to its left merged as the
\* right operand
RECURSIVE Bag(_)
Bag(nodes) ==
    IF Len(nodes) = 1 THEN nodes[1]
    ELSE MMR_MERGE_PEAKS(Bag(Tail(nodes)), nodes[1])

HonestRoot(n) ==
    LET peaks == HonestPeaks(n)
    IN  Bag([i \in 1..Len(peaks) |-> NodeAt(peaks[i][1], peaks[i][2])])

\* the proof program and the leaf records for the subtree at (p, h), given
\* the set S of leaf positions to prove
RECURSIVE GenSubtree(_, _, _)
GenSubtree(p, h, S) ==
    IF S \cap ((p - (Pow2(h + 1) - 2))..p) = {}
    THEN [proof |-> <<Byte(2)>> \o EncodeNode(NodeAt(p, h).value), leaves |-> <<>>]
    ELSE IF h = 0
    THEN [proof |-> <<Byte(1)>>, leaves |-> EncodeLeaf(U64(p), LeafData(p))]
    ELSE LET l == GenSubtree(p - Pow2(h), h - 1, S)
             r == GenSubtree(p - 1, h - 1, S)
         IN  [proof |-> l.proof \o r.proof \o <<Byte(3)>>,
              leaves |-> l.leaves \o r.leaves]

\* an input of run_mmr_verify
Input(root, mmr_size, proof, leaves) ==
    [root |-> root, mmr_size |-> mmr_size, proof |-> proof, leaves |-> leaves]

HonestInput(n, S) ==
    LET peaks == HonestPeaks(n)
        parts == [i \in 1..Len(peaks) |-> GenSubtree(peaks[i][1], peaks[i][2], S)]
        root == HonestRoot(n)
    IN  Input(SubSeq(root.value, 1, root.length), U64(HonestSize(n)),
              Concat([i \in 1..Len(peaks) |-> parts[i].proof \o <<Byte(5)>>])
                \o [i \in 1..(Len(peaks) - 1) |-> Byte(4)],
              Concat([i \in 1..Len(peaks) |-> parts[i].leaves]))

(***************************************************************************)
(* The inputs checked.                                                     *)
(***************************************************************************)
\* honest MMRs have 1..MaxLeaves leaves
MaxLeaves == 5
\* adversarial proofs are made of at most MaxCmds pieces
MaxCmds == 4

\* run_mmr_verify has initialised the two readers and mmr_verify its locals
Start(in) ==
    Entry(in.root, Len(in.root), in.mmr_size,
          mmr_default_buffer_reader_init(in.proof, Len(in.proof)),
          mmr_default_buffer_reader_init(in.leaves, Len(in.leaves)))

\* the same, for a given build of the program
StartOn(b, in) == [Start(in) EXCEPT !.build = b]

\* every honest MMR with every non-empty subset of its leaves
HonestInputs ==
    {HonestInput(n, S) : <<n, S>> \in
        {<<n, S>> \in (1..MaxLeaves) \X SUBSET (0..HonestSize(MaxLeaves)) :
            S # {} /\ S \subseteq HonestLeafPositions(n)}}

\* an honest input with one thing changed: a root byte, the root's length,
\* a leaf record added at the end, or the last proof byte dropped
Tampered(in) ==
    {[in EXCEPT !.root = [@ EXCEPT ![1] = [@ EXCEPT !.b = 1 - @]]],
     [in EXCEPT !.root = SubSeq(@, 1, Len(@) - 1)],
     [in EXCEPT !.leaves = @ \o EncodeLeaf(U64(200), LeafData(0))],
     [in EXCEPT !.proof = SubSeq(@, 1, Len(@) - 1)]}

TamperedInputs == UNION {Tampered(in) : in \in HonestInputs}

AdvSizes == {U64(0), U64(1), U64(2), U64(3), U64(4)}

AdvRoot == LeafData(1)

\* pieces of an adversarial proof: an opcode other than 1 (opcode 2 with a
\* node record), a byte that is no opcode, or opcode 2 with a record cut
\* short
AdvPieces ==
    {<<Byte(2)>> \o EncodeNode(LeafData(1)), <<Byte(3)>>, <<Byte(4)>>, <<Byte(5)>>,
     <<Byte(0)>>, <<Byte(6)>>, <<Byte(7)>>, <<Byte(2)>>, <<Byte(2), Byte(1)>>, <<Byte(2), Byte(1), Byte(0)>>}

\* what the leaf stream holds for an opcode 1: a record, nothing, or a
\* record cut short inside the position, the length prefix or the node
AdvRecords ==
    {EncodeLeaf(U64(p), LeafData(p)) : p \in 0..3}
    \cup {<<>>, Bytes(<<3, 0, 0>>), Bytes(U64(3)) \o <<Byte(1)>>,
          Bytes(U64(3)) \o Bytes(<<2, 0, 103>>)}

\* the inputs one piece longer than those of T
Grow(T) ==
    {[in EXCEPT !.proof = @ \o piece] : in \in T, piece \in AdvPieces}
    \cup {[in EXCEPT !.proof = @ \o <<Byte(1)>>, !.leaves = @ \o rec] :
            in \in T, rec \in AdvRecords}

\* every command of the proof is executed without a return and has used
\* up the leaf stream
Alive(in) ==
    LET t == RunCommands(Start(in))
    IN  t.pc = "loop" /\ t.leaf_reader_context.index = Len(in.leaves)

\* the inputs of n pieces that are alive
RECURSIVE Tree(_)
Tree(n) ==
    IF n = 0 THEN {Input(AdvRoot, mmr_size, <<>>, <<>>) : mmr_size \in AdvSizes}
    ELSE {in \in Grow(Tree(n - 1)) : Alive(in)}

\* an input whose commands leave one stack entry, with what the checks
\* after the loop can meet: the root derived or another one, the leaf
\* stream at its end or not
Endings(in) ==
    LET t == RunCommands(Start(in))
    IN  IF Alive(in) /\ t.stack_top = 1
        THEN {[in EXCEPT !.root = r, !.leaves = @ \o rec] :
                r \in {AdvRoot, SubSeq(t.stack[1].node.value, 1, t.stack[1].node.length)},
                rec \in AdvRecords}
        ELSE {in}

\* adversarial inputs: proofs of at most MaxCmds pieces in which no byte
\* follows a command that returns
AdvInputs ==
    UNION {Endings(in) :
           in \in UNION {Tree(n) \cup Grow(Tree(n)) : n \in 0..(MaxCmds - 1)}}

\* q repeated n times
Repeat(q, n) == [k \in 1..(n * Len(q)) |-> q[((k - 1) % Len(q)) + 1]]

\* the position of the i-th leaf (i from 0) of an MMR
LeafPosition(i) == 2 * i - PopCount8(i)

\* inputs that fill the stack, by opcode 1 or by opcode 2, and push once more
FullStackInputs ==
    LET record(i) == EncodeLeaf(U64(LeafPosition(i)), LeafData(0))
        width == Len(record(0))
        records == [k \in 1..((MMR_STACK_SIZE + 1) * width) |->
                      record((k - 1) \div width)[((k - 1) % width) + 1]]
        size == U64(LeafPosition(MMR_STACK_SIZE + 1))
        node == <<Byte(2)>> \o EncodeNode(<<>>)
    IN  {Input(AdvRoot, size, Repeat(fill, MMR_STACK_SIZE) \o more, records) :
            fill \in {<<Byte(1)>>, node}, more \in {<<Byte(1)>>, node}}

\* the calls of the scenarios: leaves are 32-byte digests, Leaf32(i) being
\* the hash of one byte
Leaf32(i) == Blake2b(Bytes(<<97 + i>>))

Leaf32Node(i) == Node(MMR_NODE_TYPE_POINTER, Leaf32(i), BLAKE2B_DIGEST_BYTES)

\* the parent of the leaves at positions 0 and 1
Parent01 == MMR_MERGE(Leaf32Node(0), Leaf32Node(1))

\* the 32-byte values that differ from v in one bit
Flips32(v) == {[v EXCEPT ![i] = [@ EXCEPT !.b = IF (@ \div Pow2(k)) % 2 = 1
                                                  THEN @ - Pow2(k) ELSE @ + Pow2(k)]] :
                 i \in 1..Len(v), k \in 0..7}

\* two-leaf MMR, leaf 0 proved with sibling node v: [1, 2, 3, 5]
SiblingProof(v) ==
    Input(Parent01.value, U64(3),
          Bytes(<<1, 2>>) \o EncodeNode(v) \o Bytes(<<3, 5>>),
          EncodeLeaf(U64(0), Leaf32(0)))

\* two-leaf MMR, both leaves proved: [1, 1, 3, 5]
BothLeavesProof ==
    Input(Parent01.value, U64(3), Bytes(<<1, 1, 3, 5>>),
          EncodeLeaf(U64(0), Leaf32(0)) \o EncodeLeaf(U64(1), Leaf32(1)))

\* three-leaf MMR, leaves at 0 and 3 proved against root r: [1, 2, 3, 5, 1, 5, 4]
PeakBaggingProof(r) ==
    Input(r, U64(4),
          Bytes(<<1, 2>>) \o EncodeNode(Leaf32(1)) \o Bytes(<<3, 5, 1, 5, 4>>),
          EncodeLeaf(U64(0), Leaf32(0)) \o EncodeLeaf(U64(3), Leaf32(2)))

\* the leaves at positions 3 and 4 merged into the node at 5, two proof
\* nodes merged into a node recorded at 2, and the two merged: the entry
\* beneath is a right child
RightChildMerge ==
    LET node == <<Byte(2)>> \o EncodeNode(LeafData(1))
    IN  Input(AdvRoot, U64(7),
              Bytes(<<1, 1, 3>>) \o node \o node \o Bytes(<<3, 3, 5>>),
              EncodeLeaf(U64(3), LeafData(3)) \o EncodeLeaf(U64(4), LeafData(4)))

\* three proof nodes, each marked a peak, bagged by two opcodes 4
ThreePeaks ==
    LET peak(i) == <<Byte(2)>> \o EncodeNode(LeafData(i)) \o <<Byte(5)>>
    IN  Input(AdvRoot, U64(4), peak(1) \o peak(2) \o peak(3) \o Bytes(<<4, 4>>), <<>>)

\* the commands that rebuild a perfect tree of the given height from all
\* its leaves: its left subtree, its right subtree, then opcode 3
RECURSIVE PerfectProof(_)
PerfectProof(height) ==
    IF height = 0 THEN <<Byte(1)>>
    ELSE PerfectProof(height - 1) \o PerfectProof(height - 1) \o <<Byte(3)>>

\* the height of the largest perfect tree with at most MMR_STACK_SIZE inner
\* nodes
ManyMergesHeight ==
    CHOOSE height \in 1..16 :
        Pow2(height) - 1 <= MMR_STACK_SIZE /\ MMR_STACK_SIZE < Pow2(height + 1) - 1

\* the proof of all the leaves of an MMR of three peaks: a perfect tree of
\* that height, a tree of two leaves and a single leaf; each tree is rebuilt
\* and marked a peak, and the peaks are bagged from the right.  The root
\* given is not the one of the MMR: the call ends at the root comparison.
ManyMerges ==
    LET first == Pow2(ManyMergesHeight)
        leaves == first + 3
        record(i) == EncodeLeaf(U64(LeafPosition(i)), LeafData(i % 2))
        width == Len(record(0))
    IN  Input(AdvRoot, U64(LeafPosition(leaves)),
              PerfectProof(ManyMergesHeight) \o <<Byte(5)>>
                  \o PerfectProof(1) \o <<Byte(5)>>
                  \o PerfectProof(0) \o <<Byte(5)>>
                  \o Bytes(<<4, 4>>),
              [k \in 1..(leaves * width) |->
                  record((k - 1) \div width)[((k - 1) % width) + 1]])

ScenarioInputs ==
    {RightChildMerge, ThreePeaks, ManyMerges} \cup
    {SiblingProof(v) : v \in {Leaf32(1), Leaf32(0), Leaf32(2), Parent01.value,
                              [i \in 1..BLAKE2B_DIGEST_BYTES |-> Byte(0)]}
                             \cup Flips32(Leaf32(1))}
    \cup {BothLeavesProof}
    \cup {PeakBaggingProof(r) :
            r \in {MMR_MERGE_PEAKS(Leaf32Node(2), Parent01).value,
                   MMR_MERGE(Parent01, Leaf32Node(2)).value}}

\* An MMR of 2^32 nodes: a perfect tree whose root, of height 31, is the
\* node 2^32 - 2, followed by one leaf.  BigLeafPosition(k) is the k-th node
\* down the right spine of the tree; the 31st is its last leaf.
BigSize == <<0, 0, 0, 0, 1, 0, 0, 0>>

BigLeafPosition(k) == U64Sub(<<254, 255, 255, 255, 0, 0, 0, 0>>, U64(k))

\* a call that pushes one leaf of the big MMR and marks it a peak
BigInputs ==
    {Input(r, BigSize, Bytes(<<1, 5>>), EncodeLeaf(BigLeafPosition(31), LeafData(1)))
        : r \in {LeafData(1), LeafData(2)}}

\* the largest position of the calls of LeafAtInputs
MaxPosition == 62

\* a call that pushes one leaf record at position p, for every p up to
\* MaxPosition, in an MMR that holds all these positions
LeafAt(p) ==
    Input(LeafData(p), U64(MaxPosition + 1), Bytes(<<1>>), EncodeLeaf(U64(p), LeafData(p)))

LeafAtInputs == {LeafAt(p) : p \in 0..MaxPosition}

(***************************************************************************)
(* The state machine: one call of run_mmr_verify on some input.            *)
(***************************************************************************)
\* pushes and merges are history variables: the number of entries pushed by
\* opcodes 1 and 2, and the number of calls of the merge hooks by opcodes 3
\* and 4, so far.  The program does not hold them.
VARIABLES root, root_length, mmr_size, proof_reader_context, leaf_reader_context,
          stack, stack_top, next_peak_info, last_leaf_pos, has_last_leaf,
          command, pc, ret, build, pushes, merges

vars == <<root, root_length, mmr_size, proof_reader_context, leaf_reader_context,
          stack, stack_top, next_peak_info, last_leaf_pos, has_last_leaf,
          command, pc, ret, build, pushes, merges>>

\* the current state as a record
State ==
    [root |-> root, root_length |-> root_length, mmr_size |-> mmr_size,
     proof_reader_context |-> proof_reader_context,
     leaf_reader_context |-> leaf_reader_context,
     stack |-> stack, stack_top |-> stack_top, next_peak_info |-> next_peak_info,
     last_leaf_pos |-> last_leaf_pos, has_last_leaf |-> has_last_leaf,
     command |-> command, pc |-> pc, ret |-> ret, build |-> build]

Is(s) ==
    /\ root = s.root
    /\ root_length = s.root_length
    /\ mmr_size = s.mmr_size
    /\ proof_reader_context = s.proof_reader_context
    /\ leaf_reader_context = s.leaf_reader_context
    /\ stack = s.stack
    /\ stack_top = s.stack_top
    /\ next_peak_info = s.next_peak_info
    /\ last_leaf_pos = s.last_leaf_pos
    /\ has_last_leaf = s.has_last_leaf
    /\ command = s.command
    /\ pc = s.pc
    /\ ret = s.ret
    /\ build = s.build

Becomes(s) ==
    /\ root' = s.root
    /\ root_length' = s.root_length
    /\ mmr_size' = s.mmr_size
    /\ proof_reader_context' = s.proof_reader_context
    /\ leaf_reader_context' = s.leaf_reader_context
    /\ stack' = s.stack
    /\ stack_top' = s.stack_top
    /\ next_peak_info' = s.next_peak_info
    /\ last_leaf_pos' = s.last_leaf_pos
    /\ has_last_leaf' = s.has_last_leaf
    /\ command' = s.command
    /\ pc' = s.pc
    /\ ret' = s.ret
    /\ build' = s.build

\* The small inputs never reach a height where the builds differ: they run
\* on one build.  The inputs of BigInputs run on every build.
Init ==
    /\ \/ \E in \in HonestInputs \cup TamperedInputs \cup AdvInputs \cup FullStackInputs
                      \cup ScenarioInputs \cup LeafAtInputs :
              Is(Start(in))
       \/ \E in \in BigInputs, b \in Builds : Is(StartOn(b, in))
    /\ pushes = 0
    /\ merges = 0

\* the result of the command read at the head of the loop
Fetched == MMR_COMMAND_READER(proof_reader_context)

\* the command of this step has not returned: it is counted
Counted(n) == IF pc' = "loop" THEN n + 1 ELSE n

Enter == pc = "entry" /\ Becomes(SizeCheck(State)) /\ UNCHANGED <<pushes, merges>>

Case1 ==
    /\ pc = "loop" /\ Fetched.ret = 0 /\ Fetched.out_command = 1 /\ Becomes(Iterate(State))
    /\ pushes' = Counted(pushes) /\ UNCHANGED merges

Case2 ==
    /\ pc = "loop" /\ Fetched.ret = 0 /\ Fetched.out_command = 2 /\ Becomes(Iterate(State))
    /\ pushes' = Counted(pushes) /\ UNCHANGED merges

Case3 ==
    /\ pc = "loop" /\ Fetched.ret = 0 /\ Fetched.out_command = 3 /\ Becomes(Iterate(State))
    /\ merges' = Counted(merges) /\ UNCHANGED pushes

Case4 ==
    /\ pc = "loop" /\ Fetched.ret = 0 /\ Fetched.out_command = 4 /\ Becomes(Iterate(State))
    /\ merges' = Counted(merges) /\ UNCHANGED pushes

Case5 ==
    /\ pc = "loop" /\ Fetched.ret = 0 /\ Fetched.out_command = 5 /\ Becomes(Iterate(State))
    /\ UNCHANGED <<pushes, merges>>

CaseDefault ==
    /\ pc = "loop" /\ Fetched.ret = 0 /\ Fetched.out_command \notin 1..5
    /\ Becomes(Iterate(State))
    /\ UNCHANGED <<pushes, merges>>

AfterLoop ==
    /\ pc = "loop" /\ Fetched.ret = ERROR_NO_MORE_COMMANDS /\ Becomes(Iterate(State))
    /\ UNCHANGED <<pushes, merges>>

Next ==
    \/ Enter
    \/ Case1
    \/ Case2
    \/ Case3
    \/ Case4
    \/ Case5
    \/ CaseDefault
    \/ AfterLoop

Spec == Init /\ [][Next]_vars

(***************************************************************************)
(* Properties.                                                             *)
(***************************************************************************)
Done == pc = "done"

Success == pc = "done" /\ ret = 0

\* the input of the call
CurrentInput ==
    Input(root, mmr_size, proof_reader_context.buffer, leaf_reader_context.buffer)

\* the complete leaf records of a leaf stream, read from context c on
RECURSIVE LeafRecords(_)
LeafRecords(c) ==
    LET r == MMR_LEAF_READER(c)
    IN  IF r.ret # 0 THEN <<>>
        ELSE <<[position |-> r.out_position, node |-> r.out_node, at |-> c.index]>>
               \o LeafRecords(r.c)

AllLeafRecords ==
    LeafRecords(mmr_default_buffer_reader_init(leaf_reader_context.buffer,
                                               leaf_reader_context.buffer_length))

\* C1 (soundness): when mmr_verify returns 0, the leaf records of the leaf
\* stream are in strictly increasing position order, each position is below
\* mmr_size and at height 0, and the single stack entry left holds a digest
\* equal to the root in length and bytes.
C1_Soundness ==
    Success =>
        LET recs == AllLeafRecords
        IN  /\ \A i \in 1..Len(recs) :
                  /\ U64Lt(recs[i].position, mmr_size)
                  /\ _mmr_pos_height_in_tree(recs[i].position) = 0
            /\ \A i \in 1..(Len(recs) - 1) : U64Lt(recs[i].position, recs[i + 1].position)
            /\ stack_top = 1
            /\ stack[1].node.length = root_length
            /\ SubSeq(stack[1].node.value, 1, stack[1].node.length) = SubSeq(root, 1, root_length)

\* a successful run over a leaf stream of two or more records
C1_Witness == Success /\ Len(AllLeafRecords) >= 2

\* the input is the honest proof for the leaves its leaf stream names, in the
\* honest MMR of its size
HonestCall ==
    \E n \in 1..MaxLeaves :
        /\ mmr_size = U64(HonestSize(n))
        /\ LET S == {BytesNat(AllLeafRecords[i].position) : i \in 1..Len(AllLeafRecords)}
           IN  /\ S # {}
               /\ S \subseteq HonestLeafPositions(n)
               /\ CurrentInput = HonestInput(n, S)

\* C2 (completeness): the honest proof program for any non-empty subset of
\* the leaves of an honestly built MMR, run with that MMR's root and size,
\* makes mmr_verify return 0.
C2_Completeness == (Done /\ HonestCall) => ret = 0

\* an honest proof over several peaks, bagged by opcode 4, has been accepted
C2_Witness ==
    /\ Success
    /\ HonestCall
    /\ command = 4
    /\ mmr_size = U64(HonestSize(MaxLeaves))

\* the next command is opcode 1 or 2 and the stack holds MMR_STACK_SIZE entries
PushOnFullStack ==
    /\ pc = "loop"
    /\ stack_top = MMR_STACK_SIZE
    /\ Fetched.ret = 0
    /\ Fetched.out_command \in {1, 2}

\* C3 (bounded memory): stack_top stays within 0..MMR_STACK_SIZE, no slot of
\* index MMR_STACK_SIZE or more is ever written, and opcode 1 or 2 on a full
\* stack returns InvalidStack, writing nothing.
C3_BoundedMemory ==
    /\ [](stack_top \in 0..MMR_STACK_SIZE /\ Len(stack) <= MMR_STACK_SIZE)
    /\ [][PushOnFullStack =>
            pc' = "done" /\ ret' = ERROR_INVALID_STACK /\ stack' = stack
            /\ stack_top' = stack_top]_vars

\* a push on a full stack has been refused
C3_Witness ==
    /\ Done
    /\ ret = ERROR_INVALID_STACK
    /\ stack_top = MMR_STACK_SIZE
    /\ command \in {1, 2}

\* C4 (opcode exhaustion): a successful verification ends with exactly one
\* stack entry, and that entry has kind Peak.
C4_SinglePeakAtEnd == Success => (stack_top = 1 /\ stack[1].t = _MMR_STACK_PEAK)

\* the commands are exhausted and the leaf stream still holds a complete
\* record
LeafRecordLeft ==
    /\ pc = "loop"
    /\ Fetched.ret = ERROR_NO_MORE_COMMANDS
    /\ MMR_LEAF_READER(leaf_reader_context).ret = 0

\* C5 (leaf exhaustion): when the commands end while a complete leaf record
\* is still unread, mmr_verify does not return 0, and returns InvalidProof
\* when the stack holds one entry.
C5_LeafExhaustion ==
    [][LeafRecordLeft =>
        /\ pc' = "done"
        /\ ret' # 0
        /\ (stack_top = 1 => ret' = ERROR_INVALID_PROOF)]_vars

\* every command succeeded (the last one marked the single entry left a
\* peak) and the root matches, yet the call was rejected: a leaf was left
C5_Witness ==
    /\ Done
    /\ ret = ERROR_INVALID_PROOF
    /\ stack_top = 1
    /\ command = 5
    /\ stack[1].t = _MMR_STACK_PEAK
    /\ proof_reader_context.index = proof_reader_context.buffer_length
    /\ ~RootDiffers(root, root_length, stack[1].node)

\* byte with bit k flipped
FlipBit(byte, k) ==
    [byte EXCEPT !.b = IF (@ \div Pow2(k)) % 2 = 1 THEN @ - Pow2(k) ELSE @ + Pow2(k)]

\* the roots that differ from r in one bit of the bytes at `at`
BitFlips(r, at) == {[r EXCEPT ![i] = FlipBit(@, k)] : i \in at, k \in 0..7}

\* the roots that differ from r in length by one byte, and some roots
\* unrelated to r
OtherRoots(r) ==
    {SubSeq(r, 1, Len(r) - 1) : x \in {1} \cap 1..Len(r)}
    \cup {r \o <<Byte(0)>>}
    \cup ({AdvRoot, mmr_node_value(HonestRoot(2)), <<>>} \ {r})

\* the state s had the call been made with root r
WithRoot(s, r) == [s EXCEPT !.root = r, !.root_length = Len(r)]

\* C6 (root exactness): when mmr_verify accepts root R, it returns
\* InvalidProof for the same mmr_size, proof and leaves with any other root.
\* The whole call is run again with the roots that differ from R in a bit of
\* the first or the last byte, differ in length, or are unrelated; for a flip
\* of each bit of each byte the checks after the loop are run again on the
\* state the commands end in.
C6_RootExactness ==
    Success =>
        LET t == RunCommands(StartOn(build, CurrentInput))
        IN  /\ \A r \in BitFlips(root, {1, Len(root)}) \cup OtherRoots(root) :
                  Run(StartOn(build, [CurrentInput EXCEPT !.root = r])).ret = ERROR_INVALID_PROOF
            /\ \A r \in BitFlips(root, 1..Len(root)) :
                  Terminal(WithRoot(t, r)).ret = ERROR_INVALID_PROOF

\* a digest root has been accepted
C6_Witness == Success /\ root_length = BLAKE2B_DIGEST_BYTES

\* position with bit k flipped
FlipPositionBit(position, k) ==
    [position EXCEPT ![(k \div 8) + 1] = FlipBit(Byte(@), k % 8).b]

\* the positions a leaf position is changed to: one bit flipped, or a small
\* value
PositionVariants(position) ==
    ({FlipPositionBit(position, k) : k \in 0..63} \cup {U64(p) : p \in 0..4}) \ {position}

\* the leaf stream with the position of the record at offset `at` replaced
WithPosition(leaves, at, position) ==
    [k \in 1..Len(leaves) |->
        IF k \in (at + 1)..(at + 8) THEN Byte(position[k - at]) ELSE leaves[k]]

\* C7 (leaf-position binding): when mmr_verify accepts an input, it returns
\* InvalidProof for the same input with the position of one leaf record
\* changed.  (Stated here for the calls on the small MMRs.)
C7_LeafPositionBinding ==
    (Success /\ CurrentInput \notin BigInputs) =>
        \A i \in 1..Len(AllLeafRecords) :
            \A position \in PositionVariants(AllLeafRecords[i].position) :
                Run(Start([CurrentInput EXCEPT
                             !.leaves = WithPosition(@, AllLeafRecords[i].at, position)])).ret
                    = ERROR_INVALID_PROOF

\* C8 (empty MMR): with mmr_size = 0 mmr_verify returns InvalidProof without
\* entering the loop: no command, node or leaf is read and nothing is pushed.
C8_EmptyMMR ==
    mmr_size = U64(0) =>
        /\ pc \in {"entry", "done"}
        /\ pc = "done" => ret = ERROR_INVALID_PROOF
        /\ proof_reader_context.index = 0
        /\ leaf_reader_context.index = 0
        /\ stack_top = 0
        /\ stack = <<>>

\* a call with mmr_size = 0 and non-empty proof and leaf buffers has returned
C8_Witness ==
    /\ Done
    /\ mmr_size = U64(0)
    /\ proof_reader_context.buffer_length > 0
    /\ leaf_reader_context.buffer_length > 0

\* the node record at offset `at` of buffer, with `left` bytes from there to
\* the end of the buffer, is cut short
NodeCut(buffer, at, left) ==
    \/ left < 2
    \/ left - 2 < buffer[at + 1].b + 256 * buffer[at + 2].b

ProofLeft == proof_reader_context.buffer_length - proof_reader_context.index

LeafLeft == leaf_reader_context.buffer_length - leaf_reader_context.index

\* the step returns code without pushing
ReturnsUnpushed(code) ==
    /\ pc' = "done"
    /\ ret' = code
    /\ stack' = stack
    /\ stack_top' = stack_top

\* the next command is opcode op and the stack has room
PushCommand(op) ==
    /\ pc = "loop"
    /\ Fetched.ret = 0
    /\ Fetched.out_command = op
    /\ stack_top < MMR_STACK_SIZE

\* C9 (reader failures): opcode 1 returns NoMoreLeaves when the leaf stream
\* is at its end, LeafEOF when 1..7 bytes are left, NodeEOF when the node of
\* the record is cut short; opcode 2 returns NodeEOF when its node record is
\* cut short, also inside the length prefix; none of them pushes; and 0 is
\* returned only after the command reader has reported NoMoreCommands.
C9_ReaderFailures ==
    [][/\ (PushCommand(1) /\ LeafLeft = 0) => ReturnsUnpushed(ERROR_NO_MORE_LEAFS)
       /\ (PushCommand(1) /\ LeafLeft \in 1..7) => ReturnsUnpushed(ERROR_LEAF_EOF)
       /\ (PushCommand(1) /\ LeafLeft >= 8
             /\ NodeCut(leaf_reader_context.buffer, leaf_reader_context.index + 8,
                        LeafLeft - 8))
            => ReturnsUnpushed(ERROR_NODE_EOF)
       /\ (PushCommand(2)
             /\ NodeCut(proof_reader_context.buffer, proof_reader_context.index + 1,
                        ProofLeft - 1))
            => ReturnsUnpushed(ERROR_NODE_EOF)
       /\ (pc = "loop" /\ pc' = "done" /\ ret' = 0)
            => Fetched.ret = ERROR_NO_MORE_COMMANDS]_vars

\* opcode 2 has met a proof that ends inside the length prefix
C9_Witness ==
    /\ Done
    /\ ret = ERROR_NODE_EOF
    /\ command = 2
    /\ ProofLeft = 1

\* C10 (bad opcode): a command byte outside 1..5 makes mmr_verify return
\* InvalidCommand at once, whatever the stack, the leaf stream and the root.
C10_BadOpcode ==
    [][(pc = "loop" /\ Fetched.ret = 0 /\ Fetched.out_command \notin 1..5) =>
        /\ pc' = "done"
        /\ ret' = ERROR_INVALID_COMMAND
        /\ UNCHANGED <<stack, stack_top, leaf_reader_context, next_peak_info>>]_vars

\* byte 0x07 has been rejected with entries on the stack and leaves read
C10_Witness ==
    /\ Done
    /\ ret = ERROR_INVALID_COMMAND
    /\ command = 7
    /\ stack_top >= 2
    /\ leaf_reader_context.index > 0

\* the node record after the opcode 2 at the second byte of the proof, or
\* <<>> when the proof does not hold one
SecondNode ==
    LET c == proof_reader_context
        r == MMR_PROOF_READER([c EXCEPT !.index = 2])
    IN  IF c.buffer_length >= 2 /\ c.buffer[2] = Byte(2) /\ r.ret = 0
        THEN SubSeq(r.out.value, 1, r.out.length)
        ELSE <<>>

\* C11 (sibling proof): in the two-leaf MMR, [1, 2, 3, 5] with leaf (0, L0)
\* is accepted when the opcode-2 node is L1 and rejected with InvalidProof
\* when it is any other 32-byte value; [1, 1, 3, 5] with both leaves is
\* accepted.
C11_SiblingProof ==
    Done =>
        /\ CurrentInput = SiblingProof(SecondNode) =>
              ret = IF SecondNode = Leaf32(1) THEN 0 ELSE ERROR_INVALID_PROOF
        /\ CurrentInput = BothLeavesProof => ret = 0

\* the sibling proof with one bit of L1 flipped has been rejected
C11_Witness ==
    /\ Done
    /\ CurrentInput = SiblingProof(SecondNode)
    /\ SecondNode \in Flips32(Leaf32(1))
    /\ ret = ERROR_INVALID_PROOF

\* C12 as stated (peak bagging): with root = merge(P2, L3), P2 the left
\* operand, [1, 2, 3, 5, 1, 5, 4] is accepted.
C12_PeakBagging_AsStated ==
    (Done /\ CurrentInput = PeakBaggingProof(MMR_MERGE(Parent01, Leaf32Node(2)).value))
        => ret = 0

\* C12 (peak bagging, amended): [1, 2, 3, 5, 1, 5, 4] is accepted with
\* root = merge_peaks(L3, P2), the leaf at position 3 (top of the stack) being
\* the left operand and the peak at position 2 the right one; with the
\* operands the other way round the call returns InvalidProof.
C12_PeakBagging ==
    Done =>
        /\ CurrentInput = PeakBaggingProof(MMR_MERGE_PEAKS(Leaf32Node(2), Parent01).value)
              => ret = 0
        /\ CurrentInput = PeakBaggingProof(MMR_MERGE(Parent01, Leaf32Node(2)).value)
              => ret = ERROR_INVALID_PROOF

\* the peak bagging proof has been accepted
C12_Witness ==
    /\ Success
    /\ CurrentInput = PeakBaggingProof(MMR_MERGE_PEAKS(Leaf32Node(2), Parent01).value)
    /\ command = 4

\* the entry beneath the top of the stack, and the top
Under == stack[stack_top - 1]

Top == stack[stack_top]

\* opcode 3 is next and meets two entries neither of which is a Proof
MergeOfTwoNonProof ==
    /\ pc = "loop"
    /\ Fetched.ret = 0
    /\ Fetched.out_command = 3
    /\ stack_top >= 2
    /\ Under.t # _MMR_STACK_PROOF
    /\ Top.t # _MMR_STACK_PROOF

\* the entry beneath is a right child
UnderIsRight ==
    _mmr_pos_height_in_tree(U64Add(Under.position, U64(1))) > Under.height

\* C13 (opcode 3 on two non-Proof entries): the entry beneath is the anchor.
\* The merge goes through iff the position of the top entry is the anchor's
\* sibling position, otherwise InvalidProof is returned; when it goes through
\* the two entries become one Node entry at the anchor's parent position, of
\* height + 1, holding merge(left child, right child), and the entries below
\* are unchanged.
C13_MergeNonProof ==
    [][MergeOfTwoNonProof =>
        LET pos == Under.position
            height == Under.height
            sib_pos == IF UnderIsRight
                       THEN U64Sub(pos, _mmr_sibling_offset(build, height))
                       ELSE U64Add(pos, _mmr_sibling_offset(build, height))
            parent_pos == IF UnderIsRight
                          THEN U64Add(pos, U64(1))
                          ELSE U64Add(pos, _mmr_parent_offset(build, height))
            digest == IF UnderIsRight
                      THEN MMR_MERGE(Top.node, Under.node)
                      ELSE MMR_MERGE(Under.node, Top.node)
        IN  IF Top.position = sib_pos
            THEN /\ pc' = "loop"
                 /\ stack_top' = stack_top - 1
                 /\ stack'[stack_top - 1] =
                        StackValue(_MMR_STACK_NODE, digest, parent_pos, height + 1)
                 /\ \A i \in 1..(stack_top - 2) : stack'[i] = stack[i]
            ELSE /\ pc' = "done"
                 /\ ret' = ERROR_INVALID_PROOF]_vars

\* the node at 5 (a right child) has been merged with the node recorded at
\* 2 into the node at 6
C13_Witness ==
    /\ CurrentInput = RightChildMerge
    /\ pc = "loop"
    /\ command = 3
    /\ stack_top = 1
    /\ stack[1] = StackValue(_MMR_STACK_NODE,
                              MMR_MERGE(stack[2].node,
                                        MMR_MERGE(Node(MMR_NODE_TYPE_POINTER, LeafData(3), 1),
                                                  Node(MMR_NODE_TYPE_POINTER, LeafData(4), 1))),
                              U64(6), 2)

\* the peak positions of an MMR of `remaining` more nodes after `offset`
\* nodes, left to right: the root of the largest perfect tree that fits,
\* then the peaks of the rest
RECURSIVE PeaksAfter(_, _, _)
PeaksAfter(height, offset, remaining) ==
    LET tree == U64Sub(U64Shl1(height + 1), U64(1))
    IN  IF U64Le(tree, remaining)
        THEN <<U64Sub(U64Add(offset, tree), U64(1))>>
               \o PeaksAfter(height, U64Add(offset, tree), U64Sub(remaining, tree))
        ELSE IF height = 0 THEN <<>>
        ELSE PeaksAfter(height - 1, offset, remaining)

\* (no perfect tree of more than BitLength(mmr_size) levels fits)
PeakPositions == PeaksAfter(BitLength(mmr_size), U64(0), mmr_size)

\* the index in PeakPositions of the peak the cursor is at; past the end
\* when the cursor is exhausted, 0 when it is not at a peak
CursorAt(peak) ==
    IF peak.present = 0 THEN Len(PeakPositions) + 1
    ELSE IF \E i \in 1..Len(PeakPositions) : PeakPositions[i] = peak.pos
         THEN CHOOSE i \in 1..Len(PeakPositions) : PeakPositions[i] = peak.pos
         ELSE 0

\* the next command is opcode 5 and the top entry is not a Proof entry
MarkOfNonProof ==
    /\ pc = "loop"
    /\ Fetched.ret = 0
    /\ Fetched.out_command = 5
    /\ stack_top >= 1
    /\ Top.t # _MMR_STACK_PROOF

\* C14 (opcode 5 peak ordering): the peak cursor is at a peak of the MMR of
\* mmr_size nodes or exhausted.  Opcode 5 on a non-Proof top entry retags it
\* to Peak iff its position is that of a peak at or to the right of the
\* cursor, and then leaves the cursor at the peak to the right of it, so that
\* the accepted positions are strictly increasing peak positions and none is
\* accepted twice; otherwise it returns InvalidProof.
C14_PeakOrdering ==
    [][MarkOfNonProof =>
        /\ CursorAt(next_peak_info) >= 1
        /\ IF \E i \in CursorAt(next_peak_info)..Len(PeakPositions) :
                   PeakPositions[i] = Top.position
           THEN /\ pc' = "loop"
                /\ stack_top' = stack_top
                /\ stack' = [stack EXCEPT ![stack_top].t = _MMR_STACK_PEAK]
                /\ CursorAt(next_peak_info') =
                       1 + (CHOOSE i \in 1..Len(PeakPositions) :
                                PeakPositions[i] = Top.position)
           ELSE /\ pc' = "done"
                /\ ret' = ERROR_INVALID_PROOF]_vars

\* C15 (Node invariant): every live stack entry of kind Node has a position
\* below mmr_size and the height of its position.
C15_NodeInvariant ==
    \A i \in 1..stack_top :
        stack[i].t = _MMR_STACK_NODE =>
            /\ U64Lt(stack[i].position, mmr_size)
            /\ stack[i].height = _mmr_pos_height_in_tree(stack[i].position)

\* the next command is opcode 3 with a Peak entry among the two top entries,
\* or opcode 5 with a Peak entry on top
PeakReused ==
    /\ pc = "loop"
    /\ Fetched.ret = 0
    /\ \/ /\ Fetched.out_command = 3
          /\ stack_top >= 2
          /\ _MMR_STACK_PEAK \in {Under.t, Top.t}
       \/ /\ Fetched.out_command = 5
          /\ stack_top >= 1
          /\ Top.t = _MMR_STACK_PEAK

\* C16 (kind monotonicity): a Peak entry is consumed by opcode 4 only.
\* Opcode 3 with a Peak entry as anchor or sibling, and opcode 5 on an entry
\* that is already Peak, are rejected: the call returns an error and the
\* entry is not turned into a Node nor validated again.
C16_KindMonotonicity ==
    [][PeakReused => (pc' = "done" /\ ret' # 0 /\ stack' = stack)]_vars

\* the next command is opcode 4 and the stack holds two entries or more
BagOfTwo ==
    /\ pc = "loop"
    /\ Fetched.ret = 0
    /\ Fetched.out_command = 4
    /\ stack_top >= 2

\* C17 (opcode 4): with two entries or more, opcode 4 returns InvalidProof
\* unless the two top entries are both Peak; otherwise the two become one
\* Peak entry of height 0 holding merge_peaks(top, under), the top entry
\* being the left operand, stack_top decreases by one and the entries below
\* are unchanged.
C17_MergePeaks ==
    [][BagOfTwo =>
        IF Top.t = _MMR_STACK_PEAK /\ Under.t = _MMR_STACK_PEAK
        THEN /\ pc' = "loop"
             /\ stack_top' = stack_top - 1
             /\ stack'[stack_top - 1].t = _MMR_STACK_PEAK
             /\ stack'[stack_top - 1].node = MMR_MERGE_PEAKS(Top.node, Under.node)
             /\ stack'[stack_top - 1].node =
                    Node(MMR_NODE_TYPE_BUFFER,
                         Blake2b(SubSeq(mmr_node_value(Top.node), 1, Top.node.length)
                                 \o SubSeq(mmr_node_value(Under.node), 1, Under.node.length)),
                         BLAKE2B_DIGEST_BYTES)
             /\ stack'[stack_top - 1].height = 0
             /\ \A i \in 1..(stack_top - 2) : stack'[i] = stack[i]
        ELSE /\ pc' = "done"
             /\ ret' = ERROR_INVALID_PROOF
             /\ stack' = stack]_vars

\* the first opcode 4 of ThreePeaks has bagged the third and the second peak
\* above the first
C17_Witness ==
    /\ CurrentInput = ThreePeaks
    /\ pc = "loop"
    /\ command = 4
    /\ stack_top = 2
    /\ stack[1] = StackValue(_MMR_STACK_PEAK,
                              Node(MMR_NODE_TYPE_POINTER, LeafData(1), 1), U64(0), 0)
    /\ stack[2].t = _MMR_STACK_PEAK
    /\ stack[2].node = MMR_MERGE_PEAKS(stack[3].node,
                                        Node(MMR_NODE_TYPE_POINTER, LeafData(2), 1))

\* the height of node p in the post-order numbering of a perfect tree of
\* the given height: its left subtree comes first, then its right subtree,
\* then its root
RECURSIVE HeightIn(_, _)
HeightIn(height, p) ==
    LET subtree == Pow2(height) - 1
    IN  IF p = 2 * subtree THEN height
        ELSE IF p < subtree THEN HeightIn(height - 1, p)
        ELSE HeightIn(height - 1, p - subtree)

\* the height of node p in the post-order numbering of the MMR: its height
\* in the smallest perfect tree that holds it
RECURSIVE HeightFrom(_, _)
HeightFrom(height, p) ==
    IF p < Pow2(height + 1) - 1 THEN HeightIn(height, p) ELSE HeightFrom(height + 1, p)

PostOrderHeight(p) == HeightFrom(0, p)

\* the next command is opcode 1, the stack has room, and the leaf record
\* read holds a position in order, below mmr_size and up to MaxPosition
InOrderLeaf ==
    /\ pc = "loop"
    /\ Fetched.ret = 0
    /\ Fetched.out_command = 1
    /\ stack_top < MMR_STACK_SIZE
    /\ LET r == MMR_LEAF_READER(leaf_reader_context)
       IN  /\ r.ret = 0
           /\ has_last_leaf = 1 => U64Lt(last_leaf_pos, r.out_position)
           /\ U64Lt(r.out_position, mmr_size)
           /\ U64Le(r.out_position, U64(MaxPosition))

\* C18 (height of a position): for every position p up to MaxPosition of a
\* leaf record in order and below mmr_size, _mmr_pos_height_in_tree(p) is the
\* height of node p in the post-order numbering, and opcode 1 pushes the
\* leaf iff that height is 0, returning InvalidProof otherwise.
C18_HeightOfPosition ==
    [][InOrderLeaf =>
        LET r == MMR_LEAF_READER(leaf_reader_context)
            p == r.out_position
        IN  /\ _mmr_pos_height_in_tree(p) = PostOrderHeight(BytesNat(p))
            /\ IF PostOrderHeight(BytesNat(p)) = 0
               THEN /\ pc' = "loop"
                    /\ stack_top' = stack_top + 1
                    /\ stack'[stack_top'] = StackValue(_MMR_STACK_NODE, r.out_node, p, 0)
               ELSE /\ pc' = "done"
                    /\ ret' = ERROR_INVALID_PROOF
                    /\ stack_top' = stack_top]_vars

\* the leaf record at position 56, a leaf position reached through five
\* jumps to the left, has been pushed
C18_Witness ==
    /\ CurrentInput = LeafAt(56)
    /\ pc = "loop"
    /\ command = 1
    /\ stack_top = 1
    /\ stack[1].position = U64(56)
    /\ stack[1].height = 0

\* the commands are exhausted and the stack holds exactly one entry
ProbeDue ==
    /\ pc = "loop"
    /\ Fetched.ret = ERROR_NO_MORE_COMMANDS
    /\ stack_top = 1

\* C19 (terminal leaf probe): when the commands end with exactly one stack
\* entry, mmr_verify returns 0 only if the probe of the leaf reader fails
\* with NoMoreLeaves, the leaf cursor being at the end of its buffer; when
\* bytes remain in the leaf buffer, a complete record or a truncated one, it
\* returns InvalidProof.
C19_TerminalLeafProbe ==
    [][ProbeDue =>
        /\ pc' = "done"
        /\ ret' = 0 =>
              /\ MMR_LEAF_READER(leaf_reader_context).ret = ERROR_NO_MORE_LEAFS
              /\ leaf_reader_context.index = leaf_reader_context.buffer_length
        /\ leaf_reader_context.index < leaf_reader_context.buffer_length =>
              ret' = ERROR_INVALID_PROOF]_vars

\* the next command is opcode 3 or 4 with fewer than two stack entries, or
\* opcode 5 with none
Underflow ==
    /\ pc = "loop"
    /\ Fetched.ret = 0
    /\ \/ Fetched.out_command \in {3, 4} /\ stack_top < 2
       \/ Fetched.out_command = 5 /\ stack_top = 0

\* C20 (stack underflow): opcode 3 or 4 with fewer than two stack entries,
\* and opcode 5 with an empty stack, return InvalidStack, whatever the kind
\* of the entry there is, and leave the stack, stack_top and the peak cursor
\* as they are.
C20_StackUnderflow ==
    [][Underflow =>
        /\ pc' = "done"
        /\ ret' = ERROR_INVALID_STACK
        /\ stack' = stack
        /\ stack_top' = stack_top
        /\ next_peak_info' = next_peak_info]_vars

\* opcode 4 has been refused for a single entry that is not a Peak
C20_Witness ==
    /\ Done
    /\ ret = ERROR_INVALID_STACK
    /\ command = 4
    /\ stack_top = 1
    /\ stack[1].t # _MMR_STACK_PEAK

\* the next command is opcode 5 and the top entry is a Proof entry
MarkOfProof ==
    /\ pc = "loop"
    /\ Fetched.ret = 0
    /\ Fetched.out_command = 5
    /\ stack_top >= 1
    /\ Top.t = _MMR_STACK_PROOF

\* C21 (opcode 5 on a Proof entry): the entry is retagged Peak and the loop
\* goes on, whether the peak cursor is exhausted or not; the peak cursor,
\* stack_top, the entry's node, position and height, every other stack
\* slot, last_leaf_pos, has_last_leaf and the leaf reader are unchanged, and
\* the proof reader has advanced by the command byte only.
C21_MarkProof ==
    [][MarkOfProof =>
        /\ pc' = "loop"
        /\ stack' = [stack EXCEPT ![stack_top].t = _MMR_STACK_PEAK]
        /\ stack_top' = stack_top
        /\ next_peak_info' = next_peak_info
        /\ last_leaf_pos' = last_leaf_pos
        /\ has_last_leaf' = has_last_leaf
        /\ leaf_reader_context' = leaf_reader_context
        /\ proof_reader_context' =
               [proof_reader_context EXCEPT !.index = @ + 1]]_vars

\* the leaf at 0, the only peak, has been marked, which exhausted the peak
\* cursor; the proof node pushed after it has been marked a peak all the same
C21_Witness ==
    /\ proof_reader_context.buffer =
           Bytes(<<1, 5, 2>>) \o EncodeNode(LeafData(1)) \o Bytes(<<5>>)
    /\ proof_reader_context.index = proof_reader_context.buffer_length
    /\ pc = "loop"
    /\ command = 5
    /\ next_peak_info.present = 0
    /\ stack_top = 2
    /\ stack[2] = StackValue(_MMR_STACK_PEAK,
                              Node(MMR_NODE_TYPE_POINTER, LeafData(1), 1), U64(0), 0)

\* the peaks the cursor goes through when opcode 5 looks for position pos,
\* from the cursor it starts at to the one it is left at (lines 444-451)
RECURSIVE PeakWalk(_, _)
PeakWalk(peak, pos) ==
    IF peak.present = 0 THEN <<peak>>
    ELSE IF pos = peak.pos THEN <<peak, _mmr_get_right_peak(build, peak, mmr_size)>>
    ELSE <<peak>> \o PeakWalk(_mmr_get_right_peak(build, peak, mmr_size), pos)

\* C22 (termination), as the progress measures the claim names: every
\* iteration of the main loop either returns or leaves the proof cursor at
\* least one byte further and within the buffer, so that the commands read
\* are at most proof_length and the call returns; and on every step of the
\* walk of opcode 5 the position of the peak cursor strictly increases until
\* the cursor is exhausted.
C22_Termination ==
    [][pc = "loop" =>
        /\ \/ pc' = "done"
           \/ /\ proof_reader_context'.index > proof_reader_context.index
              /\ proof_reader_context'.index <= proof_reader_context.buffer_length
        /\ MarkOfNonProof =>
              LET walk == PeakWalk(next_peak_info, Top.position)
              IN  \A i \in 1..(Len(walk) - 1) :
                      walk[i + 1].present # 0 => U64Lt(walk[i].pos, walk[i + 1].pos)]_vars

\* one iteration of the loop from the state p.s, counting a merge (opcode 3
\* or 4 that returned to the loop) in p.n; nothing once the loop is left
CountStep(p) ==
    IF \/ p.s.pc = "done"
       \/ MMR_COMMAND_READER(p.s.proof_reader_context).ret = ERROR_NO_MORE_COMMANDS
    THEN p
    ELSE LET t == Iterate(p.s)
         IN  [s |-> t,
              n |-> IF t.pc = "loop" /\ t.command \in {3, 4} THEN p.n + 1 ELSE p.n]

\* k iterations of the loop, by halves
RECURSIVE CountSteps(_, _)
CountSteps(p, k) ==
    IF k <= 1 THEN CountStep(p)
    ELSE CHOOSE r \in {CountSteps(q, k - (k \div 2)) : q \in {CountSteps(p, k \div 2)}} : TRUE

\* the number of merges the commands make from the state s of the loop on:
\* a command takes a byte of the proof or more
MergesFrom(s) ==
    CountSteps([s |-> s, n |-> 0], s.proof_reader_context.buffer_length + 1).n

\* C23 as stated (merge bound): the number of merges performed in the run
\* of a call is at most MMR_STACK_SIZE.
C23_MergeBound_AsStated ==
    (pc = "loop" /\ proof_reader_context.index = 0) =>
        MergesFrom(State) <= MMR_STACK_SIZE

\* C23 (merge bound): every merge removes one stack entry, so the number of
\* merges performed in a run is the number of entries pushed by opcodes 1
\* and 2 less stack_top; with the pushes it is at most the number of proof
\* bytes read.
C23_MergeBound ==
    /\ merges + stack_top = pushes
    /\ merges + pushes <= proof_reader_context.index
    /\ proof_reader_context.index <= proof_reader_context.buffer_length

\* an honest proof has been accepted after three merges or more
C23_Witness ==
    /\ Success
    /\ HonestCall
    /\ merges >= 3
    /\ pushes = merges + 1

\* C24 (64-bit offsets): for every height h from 0 to 62 the code's
\* _mmr_parent_offset(h) is 2^(h+1) and its _mmr_sibling_offset(h) is
\* 2^(h+1) - 1 as 64-bit unsigned values, on the build of the call.
C24_Offsets64 ==
    \A h \in 0..62 :
        /\ _mmr_parent_offset(build, h) = U64Shl1(h + 1)
        /\ _mmr_sibling_offset(build, h) = U64Sub(U64Shl1(h + 1), U64(1))

\* the reader contexts of the call
ReaderContexts == {proof_reader_context, leaf_reader_context}

\* the cursor of a context is inside its buffer, or at its end
CursorInside(c) == 0 <= c.index /\ c.index <= c.buffer_length

\* read_node on the context c: it returns 0 or NodeEOF; on 0 the cursor has
\* advanced by 2 + length, and the two bytes of the length field and the
\* bytes of the node are bytes of the buffer; on NodeEOF the cursor is
\* where it was
ReadNodeBounds(c) ==
    LET r == _mmr_default_buffer_read_node(c)
    IN  /\ r.ret \in {0, ERROR_NODE_EOF}
        /\ CursorInside(r.c)
        /\ r.ret = ERROR_NODE_EOF => r.c.index = c.index
        /\ r.ret = 0 =>
               /\ r.c.index = c.index + 2 + r.out.length
               /\ c.index + 2 + r.out.length <= c.buffer_length
               /\ c.buffer_length <= Len(c.buffer)
               /\ r.out.value = [i \in 1..r.out.length |-> c.buffer[c.index + 2 + i]]

\* read_command on the context c: on 0 the byte read is a byte of the
\* buffer and the cursor has advanced by one; otherwise the cursor is where
\* it was
CommandReadBounds(c) ==
    LET r == _mmr_default_command_read(c)
    IN  /\ r.ret \in {0, ERROR_NO_MORE_COMMANDS}
        /\ CursorInside(r.c)
        /\ r.ret = 0 =>
               /\ c.index < c.buffer_length
               /\ r.c.index = c.index + 1
               /\ r.out_command = c.buffer[c.index + 1].b
        /\ r.ret # 0 => r.c.index = c.index

\* read_leaf on the context c: on 0 the eight bytes of the position and the
\* node record after them are bytes of the buffer; on NodeEOF the cursor
\* is past the position, where the failing read_node found it
LeafReadBounds(c) ==
    LET r == _mmr_default_leaf_iter_read(c)
    IN  /\ r.ret \in {0, ERROR_NO_MORE_LEAFS, ERROR_LEAF_EOF, ERROR_NODE_EOF}
        /\ CursorInside(r.c)
        /\ r.ret = 0 =>
               /\ r.c.index = c.index + 8 + 2 + r.out_node.length
               /\ r.c.index <= c.buffer_length
               /\ r.out_node.value =
                      [i \in 1..r.out_node.length |-> c.buffer[c.index + 10 + i]]
               /\ r.out_position = [i \in 1..8 |-> c.buffer[c.index + i].b]
        /\ r.ret \in {ERROR_NO_MORE_LEAFS, ERROR_LEAF_EOF} => r.c.index = c.index
        /\ r.ret = ERROR_NODE_EOF => r.c.index = c.index + 8

\* C25 (reader cursor bounds): in every state of a call the cursor of each
\* default buffer reader satisfies 0 <= index <= buffer_length, and from
\* that state each of read_command, read_node and read_leaf keeps it so,
\* reads and returns bytes of the buffer only, advances by exactly
\* 2 + length on a successful read_node and leaves the cursor unchanged on
\* a read_node that fails with NodeEOF.
C25_ReaderBounds ==
    \A c \in ReaderContexts :
        /\ CursorInside(c)
        /\ ReadNodeBounds(c)
        /\ CommandReadBounds(c)
        /\ LeafReadBounds(c)

\* the call has returned NodeEOF from opcode 2 on a record cut short, after
\* an opcode 2 that read its node
C25_Witness ==
    /\ pc = "done"
    /\ ret = ERROR_NODE_EOF
    /\ command = 2
    /\ \E i \in 1..stack_top : stack[i].t = _MMR_STACK_PROOF
    /\ proof_reader_context.index < proof_reader_context.buffer_length

====
